---- MODULE Spec2Model ----
(***************************************************************************)
(* Portfolio store (zustand, persisted to localStorage) of the             *)
(* portfolio-manager application, with the views that read it.             *)
(*                                                                         *)
(* Money is counted in cents.  A time value is a whole number of days      *)
(* since 1 January of SeedYear, the year of the seed records.  A date held *)
(* by a transaction is either a Date object or, after a trip through JSON, *)
(* the ISO string of the same instant.                                     *)
(***************************************************************************)
EXTENDS Integers, Sequences, FiniteSets, TLC

VARIABLES accounts, transactions, budgets, localStorage, now,
          issued, ledger, addPathOnly, steps,
          route, activeNav, drawerOpen

vars == <<accounts, transactions, budgets, localStorage, now,
          issued, ledger, addPathOnly, steps,
          route, activeNav, drawerOpen>>

\* The state of the App component and the path the router displays.
ui == <<route, activeNav, drawerOpen>>

\* The store, the clock and the history variables.
store == <<accounts, transactions, budgets, localStorage, now,
           issued, ledger, addPathOnly, steps>>

(***************************************************************************)
(* Bounds of the model.                                                    *)
(***************************************************************************)
MaxSteps == 3

(***************************************************************************)
(* Calendar: the Date arithmetic of ECMAScript, at the granularity of days.*)
(***************************************************************************)
SeedYear == 2024

IsLeap(y) == (y % 4 = 0 /\ y % 100 # 0) \/ y % 400 = 0

DaysInYear(y) == IF IsLeap(y) THEN 366 ELSE 365

DaysInMonth(y, m) ==
  CASE m = 1 -> IF IsLeap(y) THEN 29 ELSE 28
    [] m \in {3, 5, 8, 10} -> 30
    [] OTHER -> 31

RECURSIVE DayFromYear(_)
DayFromYear(y) ==
  IF y = SeedYear THEN 0
  ELSE IF y > SeedYear THEN DayFromYear(y - 1) + DaysInYear(y - 1)
  ELSE DayFromYear(y + 1) - DaysInYear(y)

RECURSIVE DayWithinYear(_, _)
DayWithinYear(y, m) ==
  IF m = 0 THEN 0 ELSE DayWithinYear(y, m - 1) + DaysInMonth(y, m - 1)

\* MakeDay: month and date may lie outside their ranges and carry over.
MakeDay(y, m, d) ==
  LET ym == y + (m \div 12)
      mn == m % 12
  IN  DayFromYear(ym) + DayWithinYear(ym, mn) + d - 1

Years == (SeedYear - 2)..(SeedYear + 3)

getFullYear(t) ==
  CHOOSE y \in Years : DayFromYear(y) <= t /\ t < DayFromYear(y) + DaysInYear(y)

getMonth(t) ==
  LET y == getFullYear(t)
  IN  CHOOSE m \in 0..11 :
        /\ MakeDay(y, m, 1) <= t
        /\ t < MakeDay(y, m, 1) + DaysInMonth(y, m)

getDate(t) == t - MakeDay(getFullYear(t), getMonth(t), 1) + 1

setDate(t, d) == MakeDay(getFullYear(t), getMonth(t), d)

\* A setMonth that wraps the month within the year instead of carrying.
setMonth_WrapsWithinYear(t, m) == MakeDay(getFullYear(t), m % 12, getDate(t))

setMonth(t, m) == MakeDay(getFullYear(t), m, getDate(t))

setFullYear(t, y) == MakeDay(y, getMonth(t), getDate(t))

\* A Date object, and the string JSON puts in its place.
DateObject(t) == [repr |-> "Date", t |-> t]

toISOString(date) == [repr |-> "string", t |-> date.t]

\* new Date(value).getTime(): a Date is copied, an ISO string is parsed.
getTime(date) == date.t

\* date >= startDate, startDate a Date.  A string operand is converted to a
\* number, which gives NaN for an ISO string, and the comparison is false.
DateGeq(date, startDate) ==
  IF date.repr = "Date" THEN date.t >= startDate.t ELSE FALSE

(***************************************************************************)
(* Sequence helpers standing for Array.prototype.map, filter and reduce.   *)
(***************************************************************************)
Map(F(_), s) == [i \in 1..Len(s) |-> F(s[i])]

Filter(P(_), s) == SelectSeq(s, P)

RECURSIVE Reduce(_, _, _)
Reduce(F(_, _), s, init) ==
  IF s = <<>> THEN init ELSE Reduce(F, Tail(s), F(init, Head(s)))

Abs(x) == IF x < 0 THEN -x ELSE x

\* { ...record, ...updates }
Spread(record, updates) ==
  [f \in DOMAIN record \cup DOMAIN updates |->
     IF f \in DOMAIN updates THEN updates[f] ELSE record[f]]

RECURSIVE sortNewestFirst(_)
\* Array.prototype.sort with (a, b) => time(b) - time(a): stable, and it
\* rearranges the array it is called on.
sortNewestFirst(s) ==
  IF s = <<>> THEN <<>>
  ELSE LET n == Len(s)
           x == s[n]
           sorted == sortNewestFirst(SubSeq(s, 1, n - 1))
           k == Cardinality({i \in 1..(n - 1) :
                               getTime(sorted[i].date) >= getTime(x.date)})
       IN  SubSeq(sorted, 1, k) \o <<x>> \o SubSeq(sorted, k + 1, n - 1)

(***************************************************************************)
(* Seed data of the store.                                                 *)
(***************************************************************************)
SeedAccounts == <<
  [id |-> "1", name |-> "Main Checking", type |-> "checking",
   balance |-> 542050, currency |-> "USD"],
  [id |-> "2", name |-> "Emergency Savings", type |-> "savings",
   balance |-> 1500000, currency |-> "USD"],
  [id |-> "3", name |-> "Investment Portfolio", type |-> "investment",
   balance |-> 3245075, currency |-> "USD"] >>

SeedTransactions == <<
  [id |-> "1", accountId |-> "1", amount |-> -8950,
   description |-> "Grocery Store", category |-> "Food & Dining",
   date |-> DateObject(MakeDay(SeedYear, 0, 15)), type |-> "expense"],
  [id |-> "2", accountId |-> "1", amount |-> -4500,
   description |-> "Gas Station", category |-> "Transportation",
   date |-> DateObject(MakeDay(SeedYear, 0, 14)), type |-> "expense"],
  [id |-> "3", accountId |-> "1", amount |-> 320000,
   description |-> "Salary Deposit", category |-> "Income",
   date |-> DateObject(MakeDay(SeedYear, 0, 10)), type |-> "income"] >>

SeedBudgets == <<
  [id |-> "1", category |-> "Food & Dining", limit |-> 50000,
   spent |-> 28950, period |-> "monthly"],
  [id |-> "2", category |-> "Transportation", limit |-> 20000,
   spent |-> 14500, period |-> "monthly"] >>

\* The object the store creator returns: the three collections and the
\* thirteen functions, which stand here as one field.
StoreState(acc, txs, buds) ==
  [accounts |-> acc, transactions |-> txs, budgets |-> buds,
   actions |-> "functions"]

SeedState == StoreState(SeedAccounts, SeedTransactions, SeedBudgets)

(***************************************************************************)
(* Persistence: the persist middleware configured with name and partialize.*)
(***************************************************************************)
StorageName == "portfolio-storage"

\* A partialize that leaves the transactions out of the stored state.
partialize_WithoutTransactions(state) ==
  [accounts |-> state.accounts,
   budgets |-> state.budgets]

partialize(state) ==
  [accounts |-> state.accounts,
   transactions |-> state.transactions,
   budgets |-> state.budgets]

\* JSON.stringify: a Date becomes its ISO string, a function-valued property
\* is left out.  The JSON text is kept as the tree JSON.parse reads back.
toJSON(date) == IF date.repr = "Date" THEN toISOString(date) ELSE date

JSONstringify(value) ==
  [state |->
     [k \in DOMAIN value.state \ {"actions"} |->
        IF k = "transactions"
          THEN Map(LAMBDA t : [t EXCEPT !.date = toJSON(@)], value.state[k])
          ELSE value.state[k]],
   version |-> value.version]

NoItem == [key |-> StorageName, exists |-> FALSE, value |-> <<>>]

\* localStorage after persist writes the state: setItem(name, {state, version}).
setItem(acc, txs, buds) ==
  [key |-> StorageName, exists |-> TRUE,
   value |-> JSONstringify([state |-> partialize(StoreState(acc, txs, buds)),
                            version |-> 0])]

\* The state a new store starts with: the stored state merged over the
\* creator's state when there is a stored item, the creator's state otherwise.
hydrate(storage) ==
  IF storage.exists THEN Spread(SeedState, storage.value.state) ELSE SeedState

\* localStorage once the new store is hydrated: the state it starts with is
\* written at once, before any mutation.
persistOnHydrate(state) ==
  setItem(state.accounts, state.transactions, state.budgets)

(***************************************************************************)
(* Queries.                                                                *)
(***************************************************************************)
\* A reduce that passes over the first account.
getTotalBalance_SkipsFirst ==
  Reduce(LAMBDA total, account : total + account.balance,
         IF accounts = <<>> THEN <<>> ELSE Tail(accounts), 0)

getTotalBalance ==
  Reduce(LAMBDA total, account : total + account.balance, accounts, 0)

\* accounts.find(...)?.balance || 0
\* A lookup that falls back to the first account instead of 0.
getAccountBalance_FallsBackToFirst(accountId) ==
  LET found == {i \in 1..Len(accounts) : accounts[i].id = accountId}
  IN  IF found # {}
        THEN accounts[CHOOSE i \in found : \A j \in found : i <= j].balance
        ELSE IF accounts # <<>> THEN accounts[1].balance ELSE 0

getAccountBalance(accountId) ==
  LET found == {i \in 1..Len(accounts) : accounts[i].id = accountId}
  IN  IF found = {} THEN 0
      ELSE accounts[CHOOSE i \in found : \A j \in found : i <= j].balance

getTransactionsByAccount(accountId) ==
  Filter(LAMBDA transaction : transaction.accountId = accountId, transactions)

startDate(period) ==
  CASE period = "week" -> DateObject(setDate(now, getDate(now) - 7))
    [] period = "year" -> DateObject(setFullYear(now, getFullYear(now) - 1))
    [] OTHER -> DateObject(setMonth(now, getMonth(now) - 1))

\* A category total that adds the signed amounts.
categorySpending_Signed(txs, category, period) ==
  LET start == startDate(period)
  IN  Reduce(LAMBDA total, transaction : total + transaction.amount,
             Filter(LAMBDA transaction :
                      /\ transaction.category = category
                      /\ transaction.type = "expense"
                      /\ DateGeq(transaction.date, start),
                    txs),
             0)

categorySpending(txs, category, period) ==
  LET start == startDate(period)
  IN  Reduce(LAMBDA total, transaction : total + Abs(transaction.amount),
             Filter(LAMBDA transaction :
                      /\ transaction.category = category
                      /\ transaction.type = "expense"
                      /\ DateGeq(transaction.date, start),
                    txs),
             0)

getCategorySpending(category, period) ==
  categorySpending(transactions, category, period)

(***************************************************************************)
(* Inputs of the operations.                                               *)
(***************************************************************************)
\* getCategorySpending called without a period: the parameter's default.
getCategorySpendingDefault(category) == getCategorySpending(category, "month")

(***************************************************************************)
(* The monthly totals of the Dashboard view.  new Date(t.date) reads a     *)
(* Date object and an ISO string alike.                                    *)
(***************************************************************************)
monthlyIncome ==
  Reduce(LAMBDA sum, t : sum + t.amount,
         Filter(LAMBDA t : /\ t.type = "income"
                           /\ getMonth(t.date.t) = getMonth(now),
                transactions),
         0)

monthlyExpenses ==
  Reduce(LAMBDA sum, t : sum + Abs(t.amount),
         Filter(LAMBDA t : /\ t.type = "expense"
                           /\ getMonth(t.date.t) = getMonth(now),
                transactions),
         0)

(***************************************************************************)
(* The Budget view.  A JavaScript number that results from a division is   *)
(* a ratio, Infinity (x / 0 with x > 0), -Infinity or NaN (0 / 0).         *)
(***************************************************************************)
NaN == [kind |-> "NaN"]

Infinity == [kind |-> "Infinity"]

NegativeInfinity == [kind |-> "-Infinity"]

Finite(num, den) == [kind |-> "finite", num |-> num, den |-> den]

\* a / b
Divide(a, b) ==
  IF b > 0 THEN Finite(a, b)
  ELSE IF b < 0 THEN Finite(0 - a, 0 - b)
  ELSE IF a > 0 THEN Infinity
  ELSE IF a < 0 THEN NegativeInfinity
  ELSE NaN

\* x * k for an integer k > 0
Times(x, k) == IF x.kind = "finite" THEN Finite(x.num * k, x.den) ELSE x

\* x >= k; every comparison with NaN is false
AtLeast(x, k) ==
  CASE x.kind = "NaN" -> FALSE
    [] x.kind = "Infinity" -> TRUE
    [] x.kind = "-Infinity" -> FALSE
    [] OTHER -> x.num >= k * x.den

\* Math.min(x, k); NaN if x is NaN
MathMin(x, k) ==
  CASE x.kind = "NaN" -> NaN
    [] x.kind = "Infinity" -> Finite(k, 1)
    [] x.kind = "-Infinity" -> x
    [] OTHER -> IF x.num <= k * x.den THEN x ELSE Finite(k, 1)

getBudgetStatus(spent, limit) ==
  LET percentage == Times(Divide(spent, limit), 100)
  IN  IF AtLeast(percentage, 100) THEN "over"
      ELSE IF AtLeast(percentage, 80) THEN "warning"
      ELSE IF AtLeast(percentage, 60) THEN "good"
      ELSE "excellent"

totalBudget == Reduce(LAMBDA sum, budget : sum + budget.limit, budgets, 0)

totalSpent ==
  Reduce(LAMBDA sum, budget : sum + getCategorySpendingDefault(budget.category),
         budgets, 0)

\* The class and the fill width of the overall progress bar.
overallStatus == getBudgetStatus(totalSpent, totalBudget)

overallWidth == MathMin(Times(Divide(totalSpent, totalBudget), 100), 100)

\* A budget card that shows the stored spent field.
actualSpent_FromStoredField(budget) == budget.spent

\* The per-budget calculations of a budget card.
actualSpent(budget) == getCategorySpendingDefault(budget.category)

percentage(budget) == Times(Divide(actualSpent(budget), budget.limit), 100)

status(budget) == getBudgetStatus(actualSpent(budget), budget.limit)

categoryWidth(budget) == MathMin(percentage(budget), 100)

UUIDs == {"uuid-" \o ToString(i) : i \in 1..MaxSteps}

\* crypto.randomUUID(): a value no earlier call returned.  The values are
\* opaque and only compared for equality, so the calls are taken to return
\* uuid-1, uuid-2, ... in this order.
randomUUID == {"uuid-" \o ToString(Cardinality(issued) + 1)} \cap UUIDs

\* Ids a caller passes: seed ids, a generated id, an id of no record.
UpdatedAccountIds == {"2", "none"}

DeletedAccountIds == {"1", "2", "3", "none"}

TransactionIds == {"1", "uuid-1", "none"}

BudgetIds == {"1", "none"}

AccountInputs ==
  {[name |-> "Cash", type |-> "credit", balance |-> b, currency |-> "USD"] :
     b \in {10000}}

AccountUpdates == {[balance |-> 100], [id |-> "1"]}

TransactionInputs ==
  {[accountId |-> k.accountId, amount |-> k.amount, description |-> "New",
    category |-> k.category, date |-> DateObject(now - k.daysAgo),
    type |-> k.type] :
     k \in {[accountId |-> "1", amount |-> -8950,
             category |-> "Food & Dining", type |-> "expense", daysAgo |-> 0],
            [accountId |-> "1", amount |-> -1200,
             category |-> "Food & Dining", type |-> "expense", daysAgo |-> 8],
            [accountId |-> "1", amount |-> 5000,
             category |-> "Income", type |-> "income", daysAgo |-> 0],
            [accountId |-> "none", amount |-> 2500,
             category |-> "Transportation", type |-> "expense",
             daysAgo |-> 0]}}

TransactionUpdates == {[accountId |-> "2", amount |-> -100]}

BudgetInputs ==
  {[category |-> "Shopping", limit |-> 0, spent |-> 0, period |-> "weekly"]}

BudgetUpdates == {[spent |-> 99900, period |-> "weekly"]}

Categories == {"Food & Dining", "Transportation", "Income", "Shopping"}

Periods == {"week", "month", "year"}

(***************************************************************************)
(* Mutations.  Each one ends with the write of the persist middleware.     *)
(* issued, ledger, addPathOnly and steps record the history of the run and *)
(* bound it; the program does not hold them.                               *)
(***************************************************************************)
Persist == localStorage' = setItem(accounts', transactions', budgets')

Step ==
  /\ steps < MaxSteps
  /\ steps' = steps + 1

Edited ==
  /\ Step
  /\ UNCHANGED <<issued, now>>

\* An addAccount that leaves the existing accounts out of the new array.
addAccount_Replaces(account) ==
  \E uuid \in randomUUID :
    /\ accounts' = <<Spread(account, [id |-> uuid])>>
    /\ UNCHANGED <<transactions, budgets>>
    /\ Persist
    /\ issued' = issued \cup {uuid}
    /\ ledger' = Append(ledger, [kind |-> "account", id |-> uuid,
                                 amount |-> account.balance])
    /\ Step
    /\ UNCHANGED <<addPathOnly, now>>

\* An addAccount that puts the new account in front of the existing ones.
addAccount_Prepends(account) ==
  \E uuid \in randomUUID :
    /\ accounts' = <<Spread(account, [id |-> uuid])>> \o accounts
    /\ UNCHANGED <<transactions, budgets>>
    /\ Persist
    /\ issued' = issued \cup {uuid}
    /\ ledger' = Append(ledger, [kind |-> "account", id |-> uuid,
                                 amount |-> account.balance])
    /\ Step
    /\ UNCHANGED <<addPathOnly, now>>

addAccount(account) ==
  \E uuid \in randomUUID :
    /\ accounts' = Append(accounts, Spread(account, [id |-> uuid]))
    /\ UNCHANGED <<transactions, budgets>>
    /\ Persist
    /\ issued' = issued \cup {uuid}
    /\ ledger' = Append(ledger, [kind |-> "account", id |-> uuid,
                                 amount |-> account.balance])
    /\ Step
    /\ UNCHANGED <<addPathOnly, now>>

\* An updateAccount that stores the update in place of the account.
updateAccount_Replaces(id, updates) ==
  /\ accounts' = Map(LAMBDA account :
                       IF account.id = id THEN Spread([id |-> id], updates)
                       ELSE account,
                     accounts)
  /\ UNCHANGED <<transactions, budgets>>
  /\ Persist
  /\ Edited
  /\ addPathOnly' = FALSE
  /\ UNCHANGED ledger

\* An updateAccount that inserts the update when no account has the id.
updateAccount_Upserts(id, updates) ==
  /\ accounts' = IF \E i \in 1..Len(accounts) : accounts[i].id = id
                   THEN Map(LAMBDA account :
                              IF account.id = id THEN Spread(account, updates)
                              ELSE account,
                            accounts)
                   ELSE Append(accounts, Spread([id |-> id], updates))
  /\ UNCHANGED <<transactions, budgets>>
  /\ Persist
  /\ Edited
  /\ addPathOnly' = FALSE
  /\ UNCHANGED ledger

updateAccount(id, updates) ==
  /\ accounts' = Map(LAMBDA account :
                       IF account.id = id THEN Spread(account, updates)
                       ELSE account,
                     accounts)
  /\ UNCHANGED <<transactions, budgets>>
  /\ Persist
  /\ Edited
  /\ addPathOnly' = FALSE
  /\ UNCHANGED ledger

\* A deleteAccount that also removes the transactions of the account.
deleteAccount_Cascades(id) ==
  /\ accounts' = Filter(LAMBDA account : account.id # id, accounts)
  /\ transactions' = Filter(LAMBDA transaction : transaction.accountId # id,
                            transactions)
  /\ UNCHANGED budgets
  /\ Persist
  /\ Edited
  /\ UNCHANGED <<addPathOnly, ledger>>

deleteAccount(id) ==
  /\ accounts' = Filter(LAMBDA account : account.id # id, accounts)
  /\ UNCHANGED <<transactions, budgets>>
  /\ Persist
  /\ Edited
  /\ UNCHANGED <<addPathOnly, ledger>>

\* Variants of updatedAccounts with a slip: the amount taken off instead of
\* added, and the amount added to every account.
updatedAccounts_Subtracts(transaction) ==
  Map(LAMBDA account :
        IF account.id = transaction.accountId
          THEN [account EXCEPT
                  !.balance = account.balance - transaction.amount]
          ELSE account,
      accounts)

updatedAccounts_Everywhere(transaction) ==
  Map(LAMBDA account :
        [account EXCEPT !.balance = account.balance + transaction.amount],
      accounts)

updatedAccounts(transaction) ==
  Map(LAMBDA account :
        IF account.id = transaction.accountId
          THEN [account EXCEPT
                  !.balance = account.balance + transaction.amount]
          ELSE account,
      accounts)

\* An addTransaction that puts the new transaction first.
addTransaction_Unshifts(transaction) ==
  \E uuid \in randomUUID :
    LET newTransaction == Spread(transaction, [id |-> uuid])
    IN  /\ transactions' = <<newTransaction>> \o transactions
        /\ accounts' = updatedAccounts(transaction)
        /\ UNCHANGED budgets
        /\ Persist
        /\ issued' = issued \cup {uuid}
        /\ ledger' = Append(ledger, [kind |-> "transaction",
                                     id |-> transaction.accountId,
                                     amount |-> transaction.amount])
        /\ Step
        /\ UNCHANGED <<addPathOnly, now>>

\* An addTransaction that refuses a transaction whose account is not stored.
addTransaction_RejectsUnknownAccount(transaction) ==
  \E uuid \in randomUUID :
    LET newTransaction == Spread(transaction, [id |-> uuid])
    IN  /\ \E i \in 1..Len(accounts) : accounts[i].id = transaction.accountId
        /\ transactions' = Append(transactions, newTransaction)
        /\ accounts' = updatedAccounts(transaction)
        /\ UNCHANGED budgets
        /\ Persist
        /\ issued' = issued \cup {uuid}
        /\ ledger' = Append(ledger, [kind |-> "transaction",
                                     id |-> transaction.accountId,
                                     amount |-> transaction.amount])
        /\ Step
        /\ UNCHANGED <<addPathOnly, now>>

addTransaction(transaction) ==
  \E uuid \in randomUUID :
    LET newTransaction == Spread(transaction, [id |-> uuid])
    IN  /\ transactions' = Append(transactions, newTransaction)
        /\ accounts' = updatedAccounts(transaction)
        /\ UNCHANGED budgets
        /\ Persist
        /\ issued' = issued \cup {uuid}
        /\ ledger' = Append(ledger, [kind |-> "transaction",
                                     id |-> transaction.accountId,
                                     amount |-> transaction.amount])
        /\ Step
        /\ UNCHANGED <<addPathOnly, now>>

\* An updateTransaction that moves the account balances along with a changed
\* amount.
updateTransaction_Rebalances(id, updates) ==
  /\ transactions' = Map(LAMBDA transaction :
                           IF transaction.id = id
                             THEN Spread(transaction, updates)
                             ELSE transaction,
                         transactions)
  /\ accounts' =
       Map(LAMBDA account :
             [account EXCEPT !.balance =
                @ + Reduce(LAMBDA total, transaction :
                             total + (Spread(transaction, updates).amount
                                        - transaction.amount),
                           Filter(LAMBDA transaction :
                                    /\ transaction.id = id
                                    /\ transaction.accountId = account.id,
                                  transactions),
                           0)],
           accounts)
  /\ UNCHANGED budgets
  /\ Persist
  /\ Edited
  /\ addPathOnly' = FALSE
  /\ UNCHANGED ledger

updateTransaction(id, updates) ==
  /\ transactions' = Map(LAMBDA transaction :
                           IF transaction.id = id
                             THEN Spread(transaction, updates)
                             ELSE transaction,
                         transactions)
  /\ UNCHANGED <<accounts, budgets>>
  /\ Persist
  /\ Edited
  /\ addPathOnly' = FALSE
  /\ UNCHANGED ledger

\* A deleteTransaction that takes the amounts of the deleted transactions
\* back off their accounts.
deleteTransaction_Reverses(id) ==
  /\ transactions' = Filter(LAMBDA transaction : transaction.id # id,
                            transactions)
  /\ accounts' =
       Map(LAMBDA account :
             [account EXCEPT !.balance =
                @ - Reduce(LAMBDA total, transaction :
                             total + transaction.amount,
                           Filter(LAMBDA transaction :
                                    /\ transaction.id = id
                                    /\ transaction.accountId = account.id,
                                  transactions),
                           0)],
           accounts)
  /\ UNCHANGED budgets
  /\ Persist
  /\ Edited
  /\ addPathOnly' = FALSE
  /\ UNCHANGED ledger

deleteTransaction(id) ==
  /\ transactions' = Filter(LAMBDA transaction : transaction.id # id,
                            transactions)
  /\ UNCHANGED <<accounts, budgets>>
  /\ Persist
  /\ Edited
  /\ addPathOnly' = FALSE
  /\ UNCHANGED ledger

addBudget(budget) ==
  \E uuid \in randomUUID :
    /\ budgets' = Append(budgets, Spread(budget, [id |-> uuid]))
    /\ UNCHANGED <<accounts, transactions>>
    /\ Persist
    /\ issued' = issued \cup {uuid}
    /\ Step
    /\ UNCHANGED <<ledger, addPathOnly, now>>

updateBudget(id, updates) ==
  /\ budgets' = Map(LAMBDA budget :
                      IF budget.id = id THEN Spread(budget, updates)
                      ELSE budget,
                    budgets)
  /\ UNCHANGED <<accounts, transactions>>
  /\ Persist
  /\ Edited
  /\ UNCHANGED <<addPathOnly, ledger>>

\* A deleteBudget that also removes the transactions of the budget's category.
deleteBudget_Cascades(id) ==
  /\ budgets' = Filter(LAMBDA budget : budget.id # id, budgets)
  /\ transactions' =
       Filter(LAMBDA transaction :
                \A i \in 1..Len(budgets) :
                  budgets[i].id = id =>
                    budgets[i].category # transaction.category,
              transactions)
  /\ UNCHANGED accounts
  /\ Persist
  /\ Edited
  /\ UNCHANGED <<addPathOnly, ledger>>

deleteBudget(id) ==
  /\ budgets' = Filter(LAMBDA budget : budget.id # id, budgets)
  /\ UNCHANGED <<accounts, transactions>>
  /\ Persist
  /\ Edited
  /\ UNCHANGED <<addPathOnly, ledger>>

(***************************************************************************)
(* The Dashboard view sorts the array the store holds; nothing is written  *)
(* to localStorage.                                                        *)
(***************************************************************************)
Dashboard ==
  /\ transactions' = sortNewestFirst(transactions)
  /\ UNCHANGED <<accounts, budgets, localStorage, now,
                 issued, ledger, addPathOnly, steps>>

(***************************************************************************)
(* The page is loaded again: a new store is created and hydrated from      *)
(* localStorage, and the hydrated state is written back.                   *)
(***************************************************************************)
usePortfolioStore ==
  LET state == hydrate(localStorage)
  IN  /\ accounts' = state.accounts
      /\ transactions' = state.transactions
      /\ budgets' = state.budgets
      /\ localStorage' = persistOnHydrate(state)
      /\ UNCHANGED <<now, issued, ledger, addPathOnly, steps>>

\* Time passes.
TickDays == {8}

Tick ==
  /\ Step
  /\ \E d \in TickDays : now' = now + d
  /\ UNCHANGED <<accounts, transactions, budgets, localStorage,
                 issued, ledger, addPathOnly>>

(***************************************************************************)
(* The App component: the drawer and the item it marks active are React    *)
(* state, the displayed route is the router's.                             *)
(***************************************************************************)
navigationItems ==
  {[id |-> "start", path |-> "/"],
   [id |-> "dashboard", path |-> "/dashboard"],
   [id |-> "accounts", path |-> "/accounts"],
   [id |-> "transactions", path |-> "/transactions"],
   [id |-> "budget", path |-> "/budget"],
   [id |-> "settings", path |-> "/settings"]}

\* The paths of the Routes.
Paths == {item.path : item \in navigationItems}

\* The App as it is mounted on a path: useState(false), useState('start').
App(path) ==
  /\ route = path
  /\ activeNav = "start"
  /\ drawerOpen = FALSE

\* The clock when the page is first opened.
StartTimes == {MakeDay(SeedYear, 0, 20)}

SeedLedger ==
  [i \in 1..Len(SeedAccounts) |->
     [kind |-> "account", id |-> SeedAccounts[i].id,
      amount |-> SeedAccounts[i].balance]]

Init ==
  /\ now \in StartTimes
  /\ accounts = hydrate(NoItem).accounts
  /\ transactions = hydrate(NoItem).transactions
  /\ budgets = hydrate(NoItem).budgets
  /\ localStorage = persistOnHydrate(hydrate(NoItem))
  /\ issued = {}
  /\ ledger = SeedLedger
  /\ addPathOnly = TRUE
  /\ steps = 0
  /\ App("/")

Next ==
  \/ \E account \in AccountInputs : addAccount(account) /\ UNCHANGED ui
  \/ \E id \in UpdatedAccountIds, updates \in AccountUpdates :
       updateAccount(id, updates) /\ UNCHANGED ui
  \/ \E id \in DeletedAccountIds : deleteAccount(id) /\ UNCHANGED ui
  \/ \E transaction \in TransactionInputs :
       addTransaction(transaction) /\ UNCHANGED ui
  \/ \E id \in TransactionIds, updates \in TransactionUpdates :
       updateTransaction(id, updates) /\ UNCHANGED ui
  \/ \E id \in TransactionIds : deleteTransaction(id) /\ UNCHANGED ui
  \/ \E budget \in BudgetInputs : addBudget(budget) /\ UNCHANGED ui
  \/ \E id \in BudgetIds, updates \in BudgetUpdates :
       updateBudget(id, updates) /\ UNCHANGED ui
  \/ \E id \in BudgetIds : deleteBudget(id) /\ UNCHANGED ui
  \/ Dashboard /\ UNCHANGED ui
  \/ usePortfolioStore /\ UNCHANGED ui
  \/ Tick /\ UNCHANGED ui

Spec == Init /\ [][Next]_vars

(***************************************************************************)
(* The store over a run of calendar days: the clock advances one day at a  *)
(* time from the date of the newest seed transaction, through January      *)
(* (whose month window starts in the previous year), 29 February and the   *)
(* 31st of March and of May; transactions are entered on 31 March.         *)
(***************************************************************************)
FirstDay == MakeDay(SeedYear, 0, 15)

LastDay == MakeDay(SeedYear, 4, 31)

EntryDays == {MakeDay(SeedYear, 2, 31)}

DayPasses ==
  /\ now < LastDay
  /\ now' = now + 1
  /\ UNCHANGED <<accounts, transactions, budgets, localStorage,
                 issued, ledger, addPathOnly, steps>>

InitCalendar ==
  /\ now = FirstDay
  /\ accounts = hydrate(NoItem).accounts
  /\ transactions = hydrate(NoItem).transactions
  /\ budgets = hydrate(NoItem).budgets
  /\ localStorage = persistOnHydrate(hydrate(NoItem))
  /\ issued = {}
  /\ ledger = SeedLedger
  /\ addPathOnly = TRUE
  /\ steps = 0
  /\ App("/")

NextCalendar ==
  \/ DayPasses /\ UNCHANGED ui
  \/ \E transaction \in TransactionInputs :
       now \in EntryDays /\ addTransaction(transaction) /\ UNCHANGED ui

SpecCalendar == InitCalendar /\ [][NextCalendar]_vars

(***************************************************************************)
(* The store when the page is first opened a year after the dates of the   *)
(* seed transactions.                                                      *)
(***************************************************************************)
InitNextYear ==
  /\ now = MakeDay(SeedYear + 1, 0, 20)
  /\ accounts = hydrate(NoItem).accounts
  /\ transactions = hydrate(NoItem).transactions
  /\ budgets = hydrate(NoItem).budgets
  /\ localStorage = persistOnHydrate(hydrate(NoItem))
  /\ issued = {}
  /\ ledger = SeedLedger
  /\ addPathOnly = TRUE
  /\ steps = 0
  /\ App("/")

SpecNextYear == InitNextYear /\ [][Next]_vars

(***************************************************************************)
(* The application as a user drives it: the page is opened on any path,    *)
(* the drawer is opened and closed, a drawer item or a button of the Start *)
(* page is clicked, an account is deleted in the Accounts view, the page   *)
(* is loaded again.                                                        *)
(***************************************************************************)
\* No Route matches the location.
NoRoute == "no route"

\* setDrawerOpen: the menu button opens the drawer, the Drawer's
\* onOpenChange closes it (overlay click, escape).
setDrawerOpen(open) ==
  /\ drawerOpen # open
  /\ drawerOpen' = open
  /\ UNCHANGED <<route, activeNav>>
  /\ UNCHANGED store

\* A click on a drawer item runs handleNavigation(item.id); the item is a
\* link with href item.path and handleNavigation does not navigate itself.
\* What the link does is not decided by this code: the location stays, or
\* the router shows item.path, or the browser loads the document at the
\* href, which mounts the App anew on that location and creates the store
\* again.
handleNavigation(item) ==
  /\ drawerOpen = TRUE
  /\ \/ /\ activeNav' = item.id
        /\ drawerOpen' = FALSE
        /\ route' \in {route, item.path}
        /\ UNCHANGED store
     \/ /\ route' \in {item.path, NoRoute}
        /\ activeNav' = "start"
        /\ drawerOpen' = FALSE
        /\ usePortfolioStore

\* The paths the buttons of the Start page lead to.
StartLinks == {"/dashboard", "/accounts", "/transactions", "/budget"}

\* A button of the Start page: navigate(path).
navigateTo(path) ==
  /\ route = "/"
  /\ route' = path
  /\ UNCHANGED <<activeNav, drawerOpen>>
  /\ UNCHANGED store

\* The delete button of an account card in the Accounts view.
AccountsDelete ==
  /\ route = "/accounts"
  /\ \E i \in 1..Len(accounts) : deleteAccount(accounts[i].id)
  /\ UNCHANGED ui

\* The page is loaded again on the same location.
Reload ==
  /\ usePortfolioStore
  /\ route' = route
  /\ activeNav' = "start"
  /\ drawerOpen' = FALSE

InitUI ==
  /\ now \in StartTimes
  /\ accounts = hydrate(NoItem).accounts
  /\ transactions = hydrate(NoItem).transactions
  /\ budgets = hydrate(NoItem).budgets
  /\ localStorage = persistOnHydrate(hydrate(NoItem))
  /\ issued = {}
  /\ ledger = SeedLedger
  /\ addPathOnly = TRUE
  /\ steps = 0
  /\ \E path \in Paths : App(path)

NextUI ==
  \/ \E open \in BOOLEAN : setDrawerOpen(open)
  \/ \E item \in navigationItems : handleNavigation(item)
  \/ \E path \in StartLinks : navigateTo(path)
  \/ AccountsDelete
  \/ Reload

SpecUI == InitUI /\ [][NextUI]_vars

(***************************************************************************)
(* Properties.                                                             *)
(***************************************************************************)
Ids(records) == {records[i].id : i \in 1..Len(records)}

Range(s) == {s[i] : i \in 1..Len(s)}

\* C1: addTransaction on an account id that is in the account collection
\* makes getAccountBalance of that id the balance before plus the amount,
\* whatever the sign of the amount and the type of the transaction.
C1_BalanceFollowsAddTransaction ==
  [][\A transaction \in TransactionInputs :
       (addTransaction(transaction) /\ transaction.accountId \in Ids(accounts))
         => getAccountBalance(transaction.accountId)'
              = getAccountBalance(transaction.accountId) + transaction.amount
    ]_vars

\* An income and an expense have been added to account "1".
C1_Witness ==
  /\ ledger = SeedLedger \o
       << [kind |-> "transaction", id |-> "1", amount |-> 5000],
          [kind |-> "transaction", id |-> "1", amount |-> -8950] >>
  /\ getAccountBalance("1") = 542050 + 5000 - 8950

\* C2: addTransaction with an accountId of no account appends the
\* transaction, so the collection grows by one, and changes no account.
C2_UnknownAccountStillAppends ==
  [][\A transaction \in TransactionInputs :
       (addTransaction(transaction) /\ transaction.accountId \notin Ids(accounts))
         => /\ Len(transactions') = Len(transactions) + 1
            /\ transactions'[Len(transactions')].accountId
                 = transaction.accountId
            /\ accounts' = accounts
    ]_vars

\* A transaction on the account id "none" is stored and the seed balances
\* stand.
C2_Witness ==
  /\ \E i \in 1..Len(transactions) : transactions[i].accountId = "none"
  /\ accounts = SeedAccounts

\* C3: after deleteTransaction of an existing transaction,
\* getTransactionsByAccount of its account does not return it, and every
\* account is as before: the amount stays in the balance.
C3_DeleteTransactionKeepsBalances ==
  [][\A id \in TransactionIds :
       (deleteTransaction(id) /\ id \in Ids(transactions))
         => /\ \A accountId \in {transactions[i].accountId :
                                    i \in {j \in 1..Len(transactions) :
                                             transactions[j].id = id}} :
                 id \notin Ids(getTransactionsByAccount(accountId)')
            /\ accounts' = accounts
    ]_vars

\* The expense added to account "1" has been deleted and its amount is still
\* taken off the balance.
C3_Witness ==
  /\ ledger = Append(SeedLedger,
                     [kind |-> "transaction", id |-> "1", amount |-> -8950])
  /\ "uuid-1" \notin Ids(transactions)
  /\ steps = 2
  /\ getAccountBalance("1") = 542050 - 8950

\* C4: updateTransaction puts the given fields on the transaction with the
\* id, keeps its other fields and the other transactions, and changes no
\* account, also when the amount or the accountId changes.
C4_UpdateTransactionMergesOnly ==
  [][\A id \in TransactionIds, updates \in TransactionUpdates :
       updateTransaction(id, updates)
         => /\ accounts' = accounts
            /\ Len(transactions') = Len(transactions)
            /\ \A i \in 1..Len(transactions) :
                 IF transactions[i].id = id
                   THEN /\ \A f \in DOMAIN updates :
                             transactions'[i][f] = updates[f]
                        /\ \A f \in DOMAIN transactions[i] \ DOMAIN updates :
                             transactions'[i][f] = transactions[i][f]
                   ELSE transactions'[i] = transactions[i]
    ]_vars

\* The seed transaction "1" has moved to account "2" with another amount and
\* both balances are the seed balances.
C4_Witness ==
  /\ \E i \in 1..Len(transactions) :
       /\ transactions[i].id = "1"
       /\ transactions[i].accountId = "2"
       /\ transactions[i].amount = -100
       /\ transactions[i].category = "Food & Dining"
  /\ getAccountBalance("1") = 542050
  /\ getAccountBalance("2") = 1500000

\* The entry of the ledger that opened the account: the last one that added
\* an account with this id.
OpeningEntry(id) ==
  CHOOSE i \in 1..Len(ledger) :
    /\ ledger[i].kind = "account" /\ ledger[i].id = id
    /\ \A j \in (i + 1)..Len(ledger) :
         ~(ledger[j].kind = "account" /\ ledger[j].id = id)

RECURSIVE AddedSince(_, _)
\* The amounts of the transactions added on the id after entry i.
AddedSince(id, i) ==
  IF i >= Len(ledger) THEN 0
  ELSE (IF ledger[i + 1].kind = "transaction" /\ ledger[i + 1].id = id
          THEN ledger[i + 1].amount ELSE 0)
       + AddedSince(id, i + 1)

\* C5: as long as transactions are only created (no updateTransaction, no
\* deleteTransaction, no updateAccount), the balance of every account in the
\* collection is its opening balance plus the amounts of the transactions
\* added on its id since it was opened.
C5_BalanceIsOpeningPlusAdded ==
  addPathOnly =>
    \A i \in 1..Len(accounts) :
      accounts[i].balance
        = ledger[OpeningEntry(accounts[i].id)].amount
            + AddedSince(accounts[i].id, OpeningEntry(accounts[i].id))

\* Two transactions were added on account "1" and an account was added
\* after the first of them.
C5_Witness ==
  /\ addPathOnly
  /\ Len(ledger) = Len(SeedLedger) + 3
  /\ ledger[Len(SeedLedger) + 1].kind = "transaction"
  /\ ledger[Len(SeedLedger) + 1].id = "1"
  /\ ledger[Len(SeedLedger) + 2].kind = "account"
  /\ ledger[Len(SeedLedger) + 3].kind = "transaction"
  /\ ledger[Len(SeedLedger) + 3].id = "1"
  /\ Len(accounts) = 4

SeedIds == Ids(SeedAccounts) \cup Ids(SeedTransactions) \cup Ids(SeedBudgets)

UniqueIds(records) == Cardinality(Ids(records)) = Len(records)

\* The record a step appended to a collection has an id that no record had
\* before.
FreshlyCreated(before, after) ==
  Len(after) = Len(before) + 1
    => after[Len(after)].id \notin SeedIds \cup issued

\* C6: no two records of a collection have the same id, and a created
\* record never gets an id that a record had before.
C6_IdsUniqueNeverReused ==
  [][/\ UniqueIds(accounts') /\ UniqueIds(transactions') /\ UniqueIds(budgets')
     /\ FreshlyCreated(accounts, accounts')
     /\ FreshlyCreated(transactions, transactions')
     /\ FreshlyCreated(budgets, budgets')
    ]_vars

\* The stored item when it holds what JSON makes of the three collections
\* in memory.
WrittenThrough ==
  /\ localStorage.key = StorageName
  /\ localStorage.exists
  /\ DOMAIN localStorage.value.state = {"accounts", "transactions", "budgets"}
  /\ localStorage.value.state.accounts = accounts
  /\ localStorage.value.state.budgets = budgets
  /\ localStorage.value.state.transactions
       = [i \in 1..Len(transactions) |->
            [transactions[i] EXCEPT !.date = toJSON(@)]]

\* C7: in every state the item under "portfolio-storage" holds exactly the
\* three collections with the contents they have in memory.
C7_SnapshotEqualsMemory == WrittenThrough

StoredKeys == {"accounts", "transactions", "budgets"}

\* C8: a first start stores the seed at once; a later start takes the three
\* collections from the stored item and not from the seed, so that what the
\* mutations made of the collections is there after the start.
C8_StartsFromSnapshot ==
  /\ localStorage.exists
  /\ StoredKeys \subseteq DOMAIN localStorage.value.state
  /\ localStorage.value.state.accounts = SeedAccounts
  /\ Ids(localStorage.value.state.transactions) = Ids(SeedTransactions)
  /\ localStorage.value.state.budgets = SeedBudgets
  /\ [][usePortfolioStore
          => /\ localStorage.exists
             /\ StoredKeys \subseteq DOMAIN localStorage.value.state
             /\ accounts' = localStorage.value.state.accounts
             /\ transactions' = localStorage.value.state.transactions
             /\ budgets' = localStorage.value.state.budgets
             /\ accounts' = accounts
             /\ budgets' = budgets
             /\ Range(transactions')
                  = {[t EXCEPT !.date = toJSON(@)] : t \in Range(transactions)}
       ]_vars

\* The store was started again after an account was deleted and a
\* transaction added: neither collection is the seed.
C8_Witness ==
  /\ "1" \notin Ids(accounts)
  /\ Len(transactions) = 4
  /\ \A i \in 1..Len(transactions) : transactions[i].date.repr = "string"

\* What a start of the store makes of the item persist writes for the
\* state in memory.
Rehydrated ==
  hydrate(setItem(accounts, transactions, budgets))

\* C9: writing the three collections and reading them back gives the same
\* records with the same field values, dates included, and the same
\* category spending for every category and period.
C9_RoundTrip ==
  /\ Rehydrated.accounts = accounts
  /\ Rehydrated.transactions = transactions
  /\ Rehydrated.budgets = budgets
  /\ \A category \in Categories, period \in Periods :
       categorySpending(Rehydrated.transactions, category, period)
         = getCategorySpending(category, period)

RECURSIVE SumOfBalances(_)
SumOfBalances(indices) ==
  IF indices = {} THEN 0
  ELSE LET i == CHOOSE j \in indices : TRUE
       IN  accounts[i].balance + SumOfBalances(indices \ {i})

\* C10: getTotalBalance is the sum of the balances of the accounts in the
\* collection, and 0 when the collection is empty.
C10_TotalIsSumOfBalances ==
  /\ getTotalBalance = SumOfBalances(1..Len(accounts))
  /\ accounts = <<>> => getTotalBalance = 0

\* An account was added, an expense was added on account "1" and account
\* "3" was deleted.
C10_Witness ==
  /\ Len(accounts) = 3
  /\ "3" \notin Ids(accounts)
  /\ getTotalBalance = (542050 - 8950) + 1500000 + 10000

\* Every account has been deleted.
NoAccountLeft == accounts = <<>> /\ getTotalBalance = 0

\* The store calls made so far are addAccount calls only.
OnlyAddAccountCalls ==
  /\ steps = Len(ledger) - Len(SeedLedger)
  /\ \A i \in 1..Len(ledger) : ledger[i].kind = "account"

RECURSIVE SumOfLedger(_)
\* The balances of the accounts opened by the ledger entries from i on.
SumOfLedger(i) ==
  IF i > Len(ledger) THEN 0 ELSE ledger[i].amount + SumOfLedger(i + 1)

ProbedIds == SeedIds \cup UUIDs \cup {"none"}

\* C12: getAccountBalance(accountId) is the balance of the account whose id
\* is accountId, and 0 when no account has that id.
C12_BalanceOrZero ==
  \A accountId \in ProbedIds :
    LET matching == {account \in Range(accounts) : account.id = accountId}
    IN  IF matching = {}
          THEN getAccountBalance(accountId) = 0
          ELSE getAccountBalance(accountId)
                 \in {account.balance : account \in matching}

\* Account "1" was deleted and its balance now reads 0, while an added
\* account reads its own balance.
C12_Witness ==
  /\ "1" \notin Ids(accounts)
  /\ getAccountBalance("1") = 0
  /\ "uuid-1" \in Ids(accounts)
  /\ getAccountBalance("uuid-1") # 0

\* The ids in the order in which records receive them: the seed ids, then
\* the generated ids in order of generation.
IssueOrder == <<"1", "2", "3">> \o [i \in 1..MaxSteps |-> "uuid-" \o ToString(i)]

\* The position of an id in IssueOrder.
InsertionRank(id) == CHOOSE i \in 1..Len(IssueOrder) : IssueOrder[i] = id

\* C13: getTransactionsByAccount(accountId) holds exactly the transactions
\* of that account, each once, in the order of their addTransaction calls
\* after the seed records.
C13_ByAccountInInsertionOrder ==
  \A accountId \in ProbedIds :
    LET result == getTransactionsByAccount(accountId)
    IN  /\ Range(result)
             = {transaction \in Range(transactions) :
                  transaction.accountId = accountId}
        /\ Len(result)
             = Cardinality({i \in 1..Len(transactions) :
                              transactions[i].accountId = accountId})
        /\ \A i, j \in 1..Len(result) :
             i < j => InsertionRank(result[i].id) < InsertionRank(result[j].id)

RECURSIVE SumOfAbsAmounts(_)
\* The sum of abs(amount) over the transactions at the given positions.
SumOfAbsAmounts(indices) ==
  IF indices = {} THEN 0
  ELSE LET i == CHOOSE k \in indices : TRUE
       IN  Abs(transactions[i].amount) + SumOfAbsAmounts(indices \ {i})

\* The positions of the expense transactions of a category whose day is
\* between the given day and now.
ExpensesSince(category, day) ==
  {i \in 1..Len(transactions) :
     /\ transactions[i].type = "expense"
     /\ transactions[i].category = category
     /\ transactions[i].date.t >= day
     /\ transactions[i].date.t <= now}

\* C14: getCategorySpending(category, "week") is the sum of abs(amount) over
\* the expense transactions of exactly that category dated within the last
\* 7 days; one dated 8 days ago does not count.
C14_WeekSpending ==
  \A category \in Categories :
    getCategorySpending(category, "week")
      = SumOfAbsAmounts(ExpensesSince(category, now - 7))

\* Period values that are neither "week" nor "year".
OtherPeriods == {"month", "quarter", ""}

\* C15: getCategorySpending with no period, with "month" or with any other
\* value than "week" and "year" is the sum of abs(amount) over the expense
\* transactions of the category dated on or after now minus one calendar
\* month.
C15_MonthSpending ==
  \A category \in Categories :
    LET expected ==
          SumOfAbsAmounts(
            ExpensesSince(category, setMonth(now, getMonth(now) - 1)))
    IN  /\ getCategorySpendingDefault(category) = expected
        /\ \A period \in OtherPeriods :
             getCategorySpending(category, period) = expected

\* Every stored transaction date is a Date object (no reload has replaced
\* them by strings).
DatesAreDates == \A i \in 1..Len(transactions) : transactions[i].date.repr = "Date"

\* C16: deleteAccount(id) removes the account with that id, keeps the other
\* accounts, all transactions and all budgets; the transactions of the
\* deleted account are still returned by getTransactionsByAccount(id), and
\* getAccountBalance(id) is 0 afterwards.
C16_DeleteAccountKeepsOrphans ==
  [][\A id \in DeletedAccountIds :
       deleteAccount(id) =>
         /\ id \notin Ids(accounts')
         /\ accounts' = SelectSeq(accounts, LAMBDA account : account.id # id)
         /\ transactions' = transactions
         /\ budgets' = budgets
         /\ getTransactionsByAccount(id)' = getTransactionsByAccount(id)
         /\ getAccountBalance(id)' = 0]_vars

\* Account "1" is gone while transactions of account "1" are still stored.
C16_Witness ==
  /\ "1" \notin Ids(accounts)
  /\ Len(accounts) = 2
  /\ getTransactionsByAccount("1") # <<>>
  /\ getAccountBalance("1") = 0

\* The three collections are exactly as they were, contents and order.
CollectionsUnchanged ==
  /\ accounts' = accounts
  /\ transactions' = transactions
  /\ budgets' = budgets

\* C17: updateAccount, deleteAccount, updateTransaction, deleteTransaction,
\* updateBudget and deleteBudget with an id that matches no record of their
\* collection leave all three collections exactly as they were.
C17_UnknownIdChangesNothing ==
  [][/\ \A id \in UpdatedAccountIds \ Ids(accounts) :
          \A updates \in AccountUpdates :
            updateAccount(id, updates) => CollectionsUnchanged
     /\ \A id \in DeletedAccountIds \ Ids(accounts) :
          deleteAccount(id) => CollectionsUnchanged
     /\ \A id \in TransactionIds \ Ids(transactions) :
          /\ \A updates \in TransactionUpdates :
               updateTransaction(id, updates) => CollectionsUnchanged
          /\ deleteTransaction(id) => CollectionsUnchanged
     /\ \A id \in BudgetIds \ Ids(budgets) :
          /\ \A updates \in BudgetUpdates :
               updateBudget(id, updates) => CollectionsUnchanged
          /\ deleteBudget(id) => CollectionsUnchanged]_vars

\* Three calls were made, one of them an update or a transaction delete,
\* none created a record or moved the clock, and the collections still hold
\* the seed records: every call had an id that matched nothing.
C17_Witness ==
  /\ steps = 3
  /\ ~addPathOnly
  /\ issued = {}
  /\ now \in StartTimes
  /\ accounts = SeedAccounts
  /\ budgets = SeedBudgets
  /\ Ids(transactions) = Ids(SeedTransactions)
  /\ Len(transactions) = 3
  /\ \A i \in 1..Len(transactions) : transactions[i].accountId = "1"

\* C18: updateAccount(id, updates) on an existing id gives every field named
\* in updates the given value on the account with that id, keeps its other
\* fields and its position, keeps the number of accounts, and leaves the
\* other accounts, the transactions and the budgets unchanged.
C18_UpdateAccountMergesOnly ==
  [][\A id \in UpdatedAccountIds \cap Ids(accounts) :
       \A updates \in AccountUpdates :
         updateAccount(id, updates) =>
           /\ Len(accounts') = Len(accounts)
           /\ \A i \in 1..Len(accounts) :
                IF accounts[i].id = id
                  THEN /\ DOMAIN accounts'[i]
                            = DOMAIN accounts[i] \cup DOMAIN updates
                       /\ \A f \in DOMAIN updates :
                            accounts'[i][f] = updates[f]
                       /\ \A f \in DOMAIN accounts[i] \ DOMAIN updates :
                            accounts'[i][f] = accounts[i][f]
                  ELSE accounts'[i] = accounts[i]
           /\ transactions' = transactions
           /\ budgets' = budgets]_vars

\* The second account has the updated balance and its old name, type and
\* currency; its neighbours are the seed accounts.
C18_Witness ==
  /\ Len(accounts) = 3
  /\ accounts[2].balance = 100
  /\ accounts[2].id = "2"
  /\ accounts[2].name = SeedAccounts[2].name
  /\ accounts[2].type = SeedAccounts[2].type
  /\ accounts[2].currency = SeedAccounts[2].currency
  /\ accounts[1] = SeedAccounts[1]
  /\ accounts[3] = SeedAccounts[3]

\* The accounts, hence every balance, and the transactions are as before.
AccountsAndTransactionsUnchanged ==
  /\ accounts' = accounts
  /\ \A i \in 1..Len(accounts) : accounts'[i].balance = accounts[i].balance
  /\ transactions' = transactions

\* C19: addBudget appends one budget with a fresh id, updateBudget merges
\* the updates into the budgets with the id, deleteBudget removes the
\* budgets with the id; none of them changes the accounts, a balance or the
\* transactions.
C19_BudgetCallsTouchBudgetsOnly ==
  [][/\ \A budget \in BudgetInputs :
          addBudget(budget) =>
            /\ Len(budgets') = Len(budgets) + 1
            /\ SubSeq(budgets', 1, Len(budgets)) = budgets
            /\ budgets'[Len(budgets')].id \notin Ids(budgets)
            /\ \A f \in DOMAIN budget : budgets'[Len(budgets')][f] = budget[f]
            /\ AccountsAndTransactionsUnchanged
     /\ \A id \in BudgetIds :
          /\ \A updates \in BudgetUpdates :
               updateBudget(id, updates) =>
                 /\ Len(budgets') = Len(budgets)
                 /\ \A i \in 1..Len(budgets) :
                      IF budgets[i].id = id
                        THEN /\ \A f \in DOMAIN updates :
                                  budgets'[i][f] = updates[f]
                             /\ \A f \in DOMAIN budgets[i] \ DOMAIN updates :
                                  budgets'[i][f] = budgets[i][f]
                        ELSE budgets'[i] = budgets[i]
                 /\ AccountsAndTransactionsUnchanged
          /\ deleteBudget(id) =>
               /\ budgets' = SelectSeq(budgets, LAMBDA budget : budget.id # id)
               /\ AccountsAndTransactionsUnchanged]_vars

\* A budget was added, budget "1" was deleted, and the accounts and the
\* transactions are still the seed records.
C19_Witness ==
  /\ "uuid-1" \in Ids(budgets)
  /\ "1" \notin Ids(budgets)
  /\ Len(budgets) = 2
  /\ accounts = SeedAccounts
  /\ transactions = SeedTransactions

\* C20: addAccount(account) appends exactly one account after the existing
\* ones; it carries the given name, type, balance and currency and an id
\* that no existing account has, and the existing accounts keep their
\* values and order.
C20_AddAccountAppendsOne ==
  [][\A account \in AccountInputs :
       addAccount(account) =>
         /\ Len(accounts') = Len(accounts) + 1
         /\ SubSeq(accounts', 1, Len(accounts)) = accounts
         /\ LET added == accounts'[Len(accounts')]
            IN  /\ added.name = account.name
                /\ added.type = account.type
                /\ added.balance = account.balance
                /\ added.currency = account.currency
                /\ added.id \notin Ids(accounts)]_vars

\* Two accounts were added after the three seed accounts, in order, with
\* the given fields and different ids.
C20_Witness ==
  /\ Len(accounts) = 5
  /\ SubSeq(accounts, 1, 3) = SeedAccounts
  /\ accounts[4].name = "Cash"
  /\ accounts[5].name = "Cash"
  /\ accounts[4].id # accounts[5].id
  /\ accounts[5].id \notin SeedIds

\* The expense of the scenario: 89.50 on account "1", dated today.
ScenarioExpense ==
  [accountId |-> "1", amount |-> -8950, description |-> "New",
   category |-> "Food & Dining", date |-> DateObject(now), type |-> "expense"]

\* C21: from the seeded store, adding the expense of -89.50 on account "1"
\* gives getAccountBalance("1") = 5331.00 and a default-period spending of
\* "Food & Dining" of at least 89.50; in every state an expense added with
\* today's date raises the default-period spending of its category by
\* abs(amount).
C21_SeededExpenseScenario ==
  [][/\ (steps = 0 /\ addTransaction(ScenarioExpense)) =>
          /\ getAccountBalance("1")' = 533100
          /\ getCategorySpendingDefault("Food & Dining")' >= 8950
     /\ \A transaction \in TransactionInputs :
          (/\ transaction.type = "expense"
           /\ transaction.date = DateObject(now)
           /\ addTransaction(transaction)) =>
             getCategorySpendingDefault(transaction.category)'
               = getCategorySpendingDefault(transaction.category)
                 + Abs(transaction.amount)]_vars

\* The scenario's expense is the only call made so far.
C21_Witness ==
  /\ steps = 1
  /\ Len(transactions) = 4
  /\ \E i \in 1..4 : /\ transactions[i].amount = -8950
                     /\ transactions[i].id = "uuid-1"
                     /\ transactions[i].category = "Food & Dining"
  /\ getAccountBalance("1") = 533100
  /\ getCategorySpendingDefault("Food & Dining") >= 8950

\* Every mutation can be carried out on every input.
EveryMutationEnabled ==
  /\ \A account \in AccountInputs : ENABLED addAccount(account)
  /\ \A id \in UpdatedAccountIds, updates \in AccountUpdates :
       ENABLED updateAccount(id, updates)
  /\ \A id \in DeletedAccountIds : ENABLED deleteAccount(id)
  /\ \A transaction \in TransactionInputs : ENABLED addTransaction(transaction)
  /\ \A id \in TransactionIds, updates \in TransactionUpdates :
       ENABLED updateTransaction(id, updates)
  /\ \A id \in TransactionIds : ENABLED deleteTransaction(id)
  /\ \A budget \in BudgetInputs : ENABLED addBudget(budget)
  /\ \A id \in BudgetIds, updates \in BudgetUpdates :
       ENABLED updateBudget(id, updates)
  /\ \A id \in BudgetIds : ENABLED deleteBudget(id)

\* Every query yields a value of its result type on every input.
EveryQueryAnswers ==
  /\ getTotalBalance \in Int
  /\ \A id \in ProbedIds :
       /\ getAccountBalance(id) \in Int
       /\ Len(getTransactionsByAccount(id)) \in 0..Len(transactions)
  /\ \A category \in {"Food & Dining", "Income", "unknown"} :
       \A period \in Periods \cup {"quarter"} :
         getCategorySpending(category, period) \in Nat

C23_SpendIgnoresSpentAndPeriod ==
  [][\A id \in BudgetIds :
       \A updates \in BudgetUpdates :
         (DOMAIN updates \subseteq {"spent", "period"}
            /\ updateBudget(id, updates)) =>
           /\ \A i \in 1..Len(budgets) :
                /\ actualSpent(budgets'[i]) = actualSpent(budgets[i])
                /\ status(budgets'[i]) = status(budgets[i])
           /\ totalSpent' = totalSpent]_vars

\* Budget "1" stores a spent of 999.00 under the label "weekly", and its
\* card shows another, non-zero spend computed over the month window.
C23_Witness ==
  \E i \in 1..Len(budgets) :
    /\ budgets[i].id = "1"
    /\ budgets[i].spent = 99900
    /\ budgets[i].period = "weekly"
    /\ actualSpent(budgets[i]) \notin {0, 99900}
    /\ actualSpent(budgets[i]) = getCategorySpending(budgets[i].category, "month")

\* C24: a render of the Dashboard leaves the stored collections as they
\* were: the transactions are the same elements in the same order.
C24_RenderKeepsStore ==
  [][Dashboard => /\ transactions' = transactions
                  /\ accounts' = accounts
                  /\ budgets' = budgets]_vars

\* The positions of the accounts whose balance a step changes.
BalanceChangedAt ==
  {i \in 1..Len(accounts) :
     i <= Len(accounts') /\ accounts'[i].balance # accounts[i].balance}

\* C25: a single addTransaction changes the balance of at most one account,
\* and that account is the one whose balance getAccountBalance(accountId)
\* reports.
C25_AtMostOneBalanceChanges ==
  [][\A transaction \in TransactionInputs :
       addTransaction(transaction) =>
         /\ Cardinality(BalanceChangedAt) <= 1
         /\ \A i \in BalanceChangedAt :
              /\ accounts[i].id = transaction.accountId
              /\ getAccountBalance(transaction.accountId)'
                   = accounts'[i].balance]_vars

\* C26: addTransaction leaves the budgets unchanged, keeps every existing
\* transaction unchanged and in place with the new one appended last, and
\* leaves every account with another id than the transaction's accountId
\* unchanged and in place.
C26_AddTransactionFrame ==
  [][\A transaction \in TransactionInputs :
       addTransaction(transaction) =>
         /\ budgets' = budgets
         /\ Len(transactions') = Len(transactions) + 1
         /\ SubSeq(transactions', 1, Len(transactions)) = transactions
         /\ \A f \in DOMAIN transaction :
              transactions'[Len(transactions')][f] = transaction[f]
         /\ Len(accounts') = Len(accounts)
         /\ \A i \in 1..Len(accounts) :
              accounts[i].id # transaction.accountId
                => accounts'[i] = accounts[i]]_vars

\* Two transactions were added after the seed records; the second and the
\* third account and the budgets are the seed records, the first account's
\* balance moved.
C26_Witness ==
  /\ Len(transactions) = 5
  /\ SubSeq(transactions, 1, 3) = SeedTransactions
  /\ transactions[4].id = "uuid-1"
  /\ transactions[5].id = "uuid-2"
  /\ Len(accounts) = 3
  /\ accounts[1].balance # SeedAccounts[1].balance
  /\ accounts[2] = SeedAccounts[2]
  /\ accounts[3] = SeedAccounts[3]
  /\ budgets = SeedBudgets

\* The first day of the window of a period.
windowStart(period) == startDate(period).t

\* C27: on every day, month ends and 29 February included, the windows are
\* nested, windowStart("year") <= windowStart("month") <= windowStart("week")
\* < now, and so are the totals: week <= month <= year for every category.
C27_WindowsNested ==
  /\ windowStart("year") <= windowStart("month")
  /\ windowStart("month") <= windowStart("week")
  /\ windowStart("week") < now
  /\ \A category \in Categories :
       /\ getCategorySpending(category, "week")
            <= getCategorySpending(category, "month")
       /\ getCategorySpending(category, "month")
            <= getCategorySpending(category, "year")

\* It is 31 March: February has no 31st, so the month window starts in
\* March itself; an expense entered today counts for the week, one dated 8
\* days ago only for the month and the year, the seed expense of January
\* only for the year.
C27_Witness ==
  /\ now = MakeDay(SeedYear, 2, 31)
  /\ getMonth(windowStart("month")) = getMonth(now)
  /\ getCategorySpending("Food & Dining", "week")
       < getCategorySpending("Food & Dining", "month")
  /\ getCategorySpending("Food & Dining", "month")
       < getCategorySpending("Food & Dining", "year")

\* A fill width is a number between 0 and 100.
WithinBar(width) ==
  /\ width.kind = "finite"
  /\ 0 <= width.num
  /\ width.num <= 100 * width.den

\* The tier the claim gives for a spend and a positive limit.
Tier(spent, limit) ==
  IF 100 * spent >= 100 * limit THEN "over"
  ELSE IF 100 * spent >= 80 * limit THEN "warning"
  ELSE IF 100 * spent >= 60 * limit THEN "good"
  ELSE "excellent"

\* C28: the status of every budget card and of the overview is the tier of
\* spend and limit (over from 100%, warning from 80%, good from 60%,
\* excellent below), and every progress fill width is between 0% and 100%,
\* also for a limit of 0.
C28_StatusTiersAndWidth ==
  /\ \A i \in 1..Len(budgets) :
       /\ budgets[i].limit > 0 =>
            status(budgets[i]) = Tier(actualSpent(budgets[i]), budgets[i].limit)
       /\ WithinBar(categoryWidth(budgets[i]))
  /\ totalBudget > 0 => overallStatus = Tier(totalSpent, totalBudget)
  /\ WithinBar(overallWidth)

RECURSIVE SumOfAmounts(_)
\* The sum of amount over the transactions at the given positions.
SumOfAmounts(indices) ==
  IF indices = {} THEN 0
  ELSE LET i == CHOOSE k \in indices : TRUE
       IN  transactions[i].amount + SumOfAmounts(indices \ {i})

\* The positions of the transactions of a type dated in the current month
\* of the current year.
InCurrentMonth(type) ==
  {i \in 1..Len(transactions) :
     /\ transactions[i].type = type
     /\ getMonth(transactions[i].date.t) = getMonth(now)
     /\ getFullYear(transactions[i].date.t) = getFullYear(now)}

\* C29: the Dashboard's monthly income is the sum of amount over the income
\* transactions dated in the current month, its monthly expenses the sum of
\* abs(amount) over the expense transactions dated in the current month; a
\* transaction dated in the same month of another year is not counted.
C29_MonthlyTotalsCurrentMonthOnly ==
  /\ monthlyIncome = SumOfAmounts(InCurrentMonth("income"))
  /\ monthlyExpenses = SumOfAbsAmounts(InCurrentMonth("expense"))

\* C30: the navigation item marked active is the one whose path is the
\* route displayed.
C30_ActiveItemIsRoute ==
  \E item \in navigationItems : item.id = activeNav /\ item.path = route

\* After a click on a drawer item the drawer is closed.
DrawerClosesOnClick ==
  [][\A item \in navigationItems :
       handleNavigation(item) => drawerOpen' = FALSE]_vars

====
